---- MODULE Spec2Model ----
(***************************************************************************)
(* rendergit-lite (src/rendergit.py): the file-triage decision engine      *)
(* (decide_file, is_bloat, looks_binary, collect_files), the document      *)
(* builder (build_folder_tree, build_html) and the selection logic of the  *)
(* generated page (updateSelection and the checkbox handlers).             *)
(*                                                                         *)
(* Paths, names and extensions are real strings; the string functions of   *)
(* Python and JavaScript the code uses (split, basename, suffix, lower,    *)
(* startswith, endsWith, includes, comparison) are computed character by   *)
(* character.  Path names are made of letters, digits, '.', '_', '-' and   *)
(* '/', so an HTML attribute holds them unchanged.                         *)
(***************************************************************************)
EXTENDS Integers, Sequences, FiniteSets, TLC

VARIABLES
    pc,            \* position of main(): "clone", "scan", "build", "write",
                   \* "open", "cleanup" (finally, on return), "failed"
                   \* (finally, on an exception), "exit"; then the page:
                   \* "load", "view"
    error,         \* the exception that ended main(), "" when none
    tmpdir,        \* the directory made by tempfile.mkdtemp exists
    exit_code,     \* exit status of the process, -1 while it runs
    no_open,       \* args.no_open
    done,          \* the steps of main() that have completed
    repo,          \* the cloned working tree: relative path -> file on disk
    max_bytes,     \* args.max_bytes
    skip_bloat,    \* not args.keep_bloat
    infos,         \* collect_files(): the manifest, a sequence of FileInfo
    sections,      \* build_html: the <section class="file-section"> elements
    file_data,     \* build_html: the embedded fileData array
    tree,          \* build_folder_tree: the checkbox elements in document order
    fileChecked,   \* .file-checkbox "checked" property, by data-file
    folderChecked, \* .folder-checkbox "checked" property, by data-folder
    hidden,        \* .file-section has class "hidden", by data-file
    selectedCount, \* text of #selected-count
    selectedSize,  \* text of #selected-size
    llmText,       \* value of #llm-text: the <document> entries
    lastAction,    \* the user action handled last
    cfile,         \* decide_file under test: the file handed to it
    cpc,           \* decide_file under test: "input", "decided", "redone"
    cresult,       \* decide_file under test: its outcome
    ckeep          \* the outcome of the same file with --keep-bloat

vars == <<pc, error, tmpdir, exit_code, no_open, done, repo, max_bytes, skip_bloat, infos, sections, file_data,
          tree, fileChecked, folderChecked, hidden, selectedCount,
          selectedSize, llmText, lastAction, cfile, cpc, cresult, ckeep>>

mainVars == <<pc, error, tmpdir, exit_code, no_open, done, repo, infos, sections, file_data, tree, fileChecked,
              folderChecked, hidden, selectedCount, selectedSize, llmText,
              lastAction>>

classifyVars == <<cfile, cpc, cresult, ckeep>>

(***************************************************************************)
(* Strings                                                                 *)
(***************************************************************************)
Min(a, b) == IF a <= b THEN a ELSE b

Char(s, i) == SubSeq(s, i, i)

\* The characters of the model's names, in code point order.
Chars == "-./0123456789ABCDEFGHIJKLMNOPQRSTUVWXYZ_abcdefghijklmnopqrstuvwxyz"

Ord(c) == CHOOSE i \in 1..Len(Chars) : Char(Chars, i) = c

\* str < str in Python: by code points, a proper prefix first.
StrLess(a, b) ==
    \E i \in 1..(Min(Len(a), Len(b)) + 1) :
        /\ SubSeq(a, 1, i - 1) = SubSeq(b, 1, i - 1)
        /\ \/ i > Len(a) /\ i <= Len(b)
           \/ i <= Len(a) /\ i <= Len(b) /\ Ord(Char(a, i)) < Ord(Char(b, i))

\* str.startswith / String.prototype.startsWith
StartsWith(s, pre) == Len(pre) <= Len(s) /\ SubSeq(s, 1, Len(pre)) = pre

\* String.prototype.endsWith
EndsWith(s, suf) ==
    Len(suf) <= Len(s) /\ SubSeq(s, Len(s) - Len(suf) + 1, Len(s)) = suf

\* "sub in s" / String.prototype.includes
Includes(s, sub) ==
    \E i \in 1..(Len(s) - Len(sub) + 1) : SubSeq(s, i, i + Len(sub) - 1) = sub

\* str.rfind(c): the last position of c, 0 when absent (1-based).
RFind(s, c) ==
    LET at == {i \in 1..Len(s) : Char(s, i) = c}
    IN  IF at = {} THEN 0 ELSE CHOOSE i \in at : \A j \in at : j <= i

\* str.find(c): the first position of c, 0 when absent (1-based).
Find(s, c) ==
    LET at == {i \in 1..Len(s) : Char(s, i) = c}
    IN  IF at = {} THEN 0 ELSE CHOOSE i \in at : \A j \in at : i <= j

\* rel.split("/")
RECURSIVE Split(_)
Split(s) ==
    LET i == Find(s, "/")
    IN  IF i = 0 THEN <<s>>
        ELSE <<SubSeq(s, 1, i - 1)>> \o Split(SubSeq(s, i + 1, Len(s)))

\* "/".join(parts)
RECURSIVE Join(_)
Join(parts) ==
    IF parts = <<>> THEN ""
    ELSE IF Len(parts) = 1 THEN parts[1]
    ELSE parts[1] \o "/" \o Join(Tail(parts))

\* os.path.basename(rel)
Basename(rel) == SubSeq(rel, RFind(rel, "/") + 1, Len(rel))

\* parts[:-1]
Front(parts) == SubSeq(parts, 1, Len(parts) - 1)

Upper == "ABCDEFGHIJKLMNOPQRSTUVWXYZ"

LowerLetters == "abcdefghijklmnopqrstuvwxyz"

\* str.lower()
RECURSIVE Lower(_)
Lower(s) ==
    IF s = "" THEN ""
    ELSE LET c == Char(s, 1)
             k == Find(Upper, c)
         IN  (IF k = 0 THEN c ELSE Char(LowerLetters, k)) \o Lower(Tail(s))

\* pathlib's PurePath.suffix: the last dot of the final component and what
\* follows it, "" when the dot is first or last.
Suffix(rel) ==
    LET name == Basename(rel)
        i    == RFind(name, ".")
    IN  IF 1 < i /\ i < Len(name) THEN SubSeq(name, i, Len(name)) ELSE ""

(***************************************************************************)
(* The classifier                                                          *)
(***************************************************************************)
MAX_DEFAULT_BYTES == 50 * 1024

BLOAT_PATTERNS ==
    {"package-lock.json", "yarn.lock", "poetry.lock", "Cargo.lock",
     "pnpm-lock.yaml", "Gemfile.lock", "composer.lock", "Pipfile.lock",
     "go.sum"}

BLOAT_DIRS ==
    {"node_modules", ".venv", "venv", "__pycache__", "dist", "build",
     ".next", ".nuxt", "target", "out", ".gradle", ".cache"}

BINARY_EXTENSIONS ==
    {".png", ".jpg", ".jpeg", ".gif", ".webp", ".bmp", ".svg", ".ico",
     ".pdf", ".zip", ".tar", ".gz", ".bz2", ".xz", ".7z", ".rar",
     ".mp3", ".mp4", ".mov", ".avi", ".mkv", ".wav", ".ogg", ".flac",
     ".ttf", ".otf", ".eot", ".woff", ".woff2",
     ".so", ".dll", ".dylib", ".class", ".jar", ".exe", ".bin"}

MARKDOWN_EXTENSIONS == {".md", ".markdown", ".mdown", ".mkd", ".mkdn"}

\* What path.stat() does: returns st_size, or raises.
StatErrors == {"FileNotFoundError", "PermissionError"}

\* What the first 8192 bytes read by looks_binary are: valid UTF-8 without a
\* null byte, holding a null byte, not valid UTF-8, or not readable at all
\* (open or read raises).
\* "cut" is a file longer than the chunk whose whole content is valid UTF-8
\* without a null byte, and whose byte number SNIFF_BYTES lies inside a
\* multi-byte character: the chunk ends in a truncated sequence.
ChunkKinds == {"text", "null", "invalid", "unreadable", "cut"}

\* f.read(8192)
SNIFF_BYTES == 8192

\* A file on disk: f.stat = [err, size], f.chunk \in ChunkKinds,
\* f.content = its decoded text, f.link = it is a symlink.
File(err, size, chunk, content) ==
    [err |-> err, size |-> size, chunk |-> chunk, content |-> content,
     link |-> FALSE]

looks_binary(rel, f) ==
    LET ext == Lower(Suffix(rel))
    IN  IF ext \in BINARY_EXTENSIONS THEN TRUE
        ELSE IF f.chunk = "unreadable" THEN TRUE
        ELSE IF f.chunk = "null" THEN TRUE
        ELSE IF f.chunk = "invalid" THEN TRUE
        ELSE IF f.chunk = "cut" THEN TRUE
        ELSE FALSE

\* is_bloat taking every basename that ends in ".lock" for a lockfile.
is_bloat_any_lock(rel_path, skip) ==
    IF ~skip THEN FALSE
    ELSE IF Basename(rel_path) \in BLOAT_PATTERNS THEN TRUE
    ELSE IF EndsWith(Basename(rel_path), ".lock") THEN TRUE
    ELSE \E k \in 1..Len(Split(rel_path)) : Split(rel_path)[k] \in BLOAT_DIRS

\* is_bloat without its test of skip_bloat.
is_bloat_always(rel_path, skip) ==
    \/ Basename(rel_path) \in BLOAT_PATTERNS
    \/ \E k \in 1..Len(Split(rel_path)) : Split(rel_path)[k] \in BLOAT_DIRS

is_bloat(rel_path, skip) ==
    IF ~skip THEN FALSE
    ELSE IF Basename(rel_path) \in BLOAT_PATTERNS THEN TRUE
    ELSE LET parts == Split(rel_path)
         IN  \E k \in 1..Len(parts) : parts[k] \in BLOAT_DIRS

\* The "Ignore VCS" test of decide_file.
IsVcs(rel) == Includes("/" \o rel \o "/", "/.git/") \/ StartsWith(rel, ".git/")

\* decide_file raises: path.stat() failed with anything but FileNotFoundError.
DecideRaises(f) == f.err \notin {"", "FileNotFoundError"}

\* The size decide_file works with.
StatSize(f) == IF f.err = "FileNotFoundError" THEN 0 ELSE f.size

FileInfo(rel, size, include, reason) ==
    [rel |-> rel, size |-> size, include |-> include, reason |-> reason]

\* decide_file with the content sniffed before the size is compared.
decide_file_sniff_first(rel, f, max, skip) ==
    LET size == StatSize(f)
    IN  IF IsVcs(rel) THEN FileInfo(rel, size, FALSE, "ignored")
        ELSE IF is_bloat(rel, skip) THEN FileInfo(rel, size, FALSE, "bloat")
        ELSE IF looks_binary(rel, f) THEN FileInfo(rel, size, FALSE, "binary")
        ELSE IF size > max THEN FileInfo(rel, size, FALSE, "too_large")
        ELSE FileInfo(rel, size, TRUE, "ok")

\* decide_file, for a file whose stat does not raise.
decide_file(rel, f, max, skip) ==
    LET size == StatSize(f)
    IN  IF IsVcs(rel) THEN FileInfo(rel, size, FALSE, "ignored")
        ELSE IF is_bloat(rel, skip) THEN FileInfo(rel, size, FALSE, "bloat")
        ELSE IF size > max THEN FileInfo(rel, size, FALSE, "too_large")
        ELSE IF looks_binary(rel, f) THEN FileInfo(rel, size, FALSE, "binary")
        ELSE FileInfo(rel, size, TRUE, "ok")

\* The outcome of one call of decide_file: a FileInfo, or the exception.
Raised(exc) == [raised |-> exc]

DecideOutcome(rel, f, max, skip) ==
    IF DecideRaises(f) THEN Raised(f.err) ELSE decide_file(rel, f, max, skip)

(***************************************************************************)
(* decide_file on one file: every path, stat outcome, content kind and     *)
(* policy of the sets below.                                               *)
(***************************************************************************)
\* git admits no tracked path with a component ".git": the name occurs only
\* as a directory.
ClassifyPaths ==
    {"a.py", "b.png", "IMG.PNG", "lib/dep.lock", ".git/HEAD",
     ".git/node_modules/x.js", "sub/.git/config", ".gitignore",
     ".github/w.yml", "yarn.lock", "web/Cargo.lock", "node_modules/m/i.js",
     "build/o.bin", "out", "src/build.py", "docs/r.md"}

ClassifySizes == {0, 150, 200, 9000, 60000}

Ceilings == {100, MAX_DEFAULT_BYTES}

ClassifyFiles ==
    {File("", n, c, "x") : n \in ClassifySizes, c \in ChunkKinds \ {"cut"}}
    \cup {File("", n, "cut", "x") : n \in {m \in ClassifySizes : m > SNIFF_BYTES}}
    \cup {File(e, 0, c, "x") : e \in StatErrors, c \in ChunkKinds \ {"cut"}}

NotCalled == [raised |-> "not called"]

ClassifyInit ==
    /\ cfile \in [rel : ClassifyPaths, f : ClassifyFiles]
    /\ max_bytes \in Ceilings
    /\ skip_bloat \in BOOLEAN
    /\ cpc = "input"
    /\ cresult = NotCalled
    /\ ckeep = NotCalled
    /\ pc = "idle"
    /\ error = ""
    /\ tmpdir = FALSE
    /\ exit_code = -1
    /\ no_open = FALSE
    /\ done = {}
    /\ repo = <<>>
    /\ infos = <<>>
    /\ sections = <<>>
    /\ file_data = <<>>
    /\ tree = <<>>
    /\ fileChecked = <<>>
    /\ folderChecked = <<>>
    /\ hidden = <<>>
    /\ selectedCount = 0
    /\ selectedSize = ""
    /\ llmText = <<>>
    /\ lastAction = "none"

\* decide_file(path, repo_root, max_bytes, skip_bloat)
Decide ==
    /\ cpc = "input"
    /\ cresult' = DecideOutcome(cfile.rel, cfile.f, max_bytes, skip_bloat)
    /\ cpc' = "decided"
    /\ UNCHANGED <<mainVars, max_bytes, skip_bloat, cfile, ckeep>>

\* The same file decided again as under --keep-bloat (skip_bloat = False).
DecideKeepBloat ==
    /\ cpc = "decided"
    /\ ckeep' = DecideOutcome(cfile.rel, cfile.f, max_bytes, FALSE)
    /\ cpc' = "redone"
    /\ UNCHANGED <<mainVars, max_bytes, skip_bloat, cfile, cresult>>

ClassifyNext == Decide \/ DecideKeepBloat

SpecClassify == ClassifyInit /\ [][ClassifyNext]_vars

(***************************************************************************)
(* The scanner                                                             *)
(***************************************************************************)
\* list < list in Python, the elements compared as strings.
PartsLess(a, b) ==
    \E i \in 1..(Min(Len(a), Len(b)) + 1) :
        /\ SubSeq(a, 1, i - 1) = SubSeq(b, 1, i - 1)
        /\ \/ i > Len(a) /\ i <= Len(b)
           \/ i <= Len(a) /\ i <= Len(b) /\ StrLess(a[i], b[i])

\* A sort on the slash-joined path taken as one string.
PathLess_str(p, q) == StrLess(p, q)

\* PurePath.__lt__: paths compare by their lists of components.
PathLess(p, q) == PartsLess(Split(p), Split(q))

\* sorted(repo_root.rglob("*")), the directories left out.
RECURSIVE SortedPaths(_)
SortedPaths(S) ==
    IF S = {} THEN <<>>
    ELSE LET m == CHOOSE x \in S : \A y \in S \ {x} : PathLess(x, y)
         IN  <<m>> \o SortedPaths(S \ {m})

\* The loop of collect_files over the sorted paths, symlinks skipped.
RECURSIVE CollectLoop(_, _, _, _)
CollectLoop(paths, tree_, max, skip) ==
    IF paths = <<>> THEN <<>>
    ELSE LET p == Head(paths)
         IN  IF tree_[p].link THEN CollectLoop(Tail(paths), tree_, max, skip)
             ELSE <<decide_file(p, tree_[p], max, skip)>>
                  \o CollectLoop(Tail(paths), tree_, max, skip)

collect_files(tree_, max, skip) ==
    CollectLoop(SortedPaths(DOMAIN tree_), tree_, max, skip)

\* The files whose decide_file raises, which ends collect_files.
Raising(tree_) == {p \in DOMAIN tree_ : ~tree_[p].link /\ DecideRaises(tree_[p])}

(***************************************************************************)
(* The tree builder                                                        *)
(***************************************************************************)
\* rendered = [i for i in infos if i.decision.include]
Included(i) == i.include

\* rendered without the filter on decision.include.
Rendered_all(is) == is

Rendered(is) == SelectSeq(is, Included)

\* folders filled from every record of the manifest, not from rendered.
FolderDict_all(rendered) ==
    UNION {{SubSeq(Split(infos[n].rel), 1, k) :
                k \in 1..(Len(Split(infos[n].rel)) - 1)} :
           n \in 1..Len(infos)}

\* The nested dict "folders", held as the set of its key paths: <<"lib">> is
\* folders["lib"], <<"lib", "sub">> is folders["lib"]["sub"].
FolderDict(rendered) ==
    UNION {{SubSeq(Split(rendered[n].rel), 1, k) :
                k \in 1..(Len(Split(rendered[n].rel)) - 1)} :
           n \in 1..Len(rendered)}

\* tree.keys()
Keys(t) == {k[1] : k \in t}

\* tree[folder_name]
SubDict(t, name) == {Tail(k) : k \in {x \in t : Len(x) > 1 /\ x[1] = name}}

\* sorted(names)
RECURSIVE SortedNames(_)
SortedNames(S) ==
    IF S = {} THEN <<>>
    ELSE LET m == CHOOSE x \in S : \A y \in S \ {x} : StrLess(x, y)
         IN  <<m>> \o SortedNames(S \ {m})

\* path.rstrip("/")
RECURSIVE RStrip(_)
RStrip(s) ==
    IF s # "" /\ Char(s, Len(s)) = "/" THEN RStrip(SubSeq(s, 1, Len(s) - 1))
    ELSE s

\* "/".join(i.rel.split("/")[:-1])
Dirname(rel) == Join(Front(Split(rel)))

\* files_here of render_tree
IsHere(i, path) == Dirname(i.rel) = RStrip(path)

FilesHere(rendered, path) == SelectSeq(rendered, LAMBDA i : IsHere(i, path))

\* sorted(files_here, key=basename): stable, the first of equal keys first.
RECURSIVE SortedByBasename(_)
SortedByBasename(fs) ==
    IF fs = <<>> THEN <<>>
    ELSE LET m == CHOOSE n \in 1..Len(fs) :
                      \A j \in 1..Len(fs) :
                          \/ j = n
                          \/ StrLess(Basename(fs[n].rel), Basename(fs[j].rel))
                          \/ Basename(fs[n].rel) = Basename(fs[j].rel) /\ n < j
         IN  <<fs[m]>>
             \o SortedByBasename(SubSeq(fs, 1, m - 1) \o SubSeq(fs, m + 1, Len(fs)))

\* The checkbox a folder is rendered as, and the one a file is rendered as;
\* "parent" is the path of the folder whose tree-children element holds it.
FolderBox(folder_path, level, parent) ==
    [kind |-> "folder", path |-> folder_path, level |-> level, parent |-> parent]

FileBox(info, level, parent) ==
    [kind |-> "file", path |-> info.rel, level |-> level, parent |-> parent]

RenderFiles(fs, level, parent) ==
    [n \in 1..Len(fs) |-> FileBox(fs[n], level, parent)]

\* render_tree: the folders of this level first, each followed by what it
\* holds, then the files of this level.
RECURSIVE render_tree(_, _, _, _)
RECURSIVE RenderFolders(_, _, _, _, _)
RenderFolders(names, t, path, level, rendered) ==
    IF names = <<>> THEN <<>>
    ELSE LET folder_name == Head(names)
             folder_path == IF path # "" THEN path \o "/" \o folder_name
                            ELSE folder_name
         IN  <<FolderBox(folder_path, level, path)>>
             \o render_tree(SubDict(t, folder_name), folder_path, level + 1, rendered)
             \o RenderFolders(Tail(names), t, path, level, rendered)

\* render_tree with the files of a level written before its folders.
render_tree_files_first(t, path, level, rendered) ==
    RenderFiles(SortedByBasename(FilesHere(rendered, path)), level, path)
    \o RenderFolders(SortedNames(Keys(t)), t, path, level, rendered)

render_tree(t, path, level, rendered) ==
    RenderFolders(SortedNames(Keys(t)), t, path, level, rendered)
    \o RenderFiles(SortedByBasename(FilesHere(rendered, path)), level, path)

build_folder_tree(is) == render_tree(FolderDict(Rendered(is)), "", 0, Rendered(is))

(***************************************************************************)
(* The document builder                                                    *)
(***************************************************************************)
\* What happens to one rendered file inside the try block of build_html:
\* "ok", read_text raises ("read"), or the renderer raises ("render").
Outcomes == {"ok", "read", "render"}

\* The local variable "text" of build_html: unbound until a read succeeds.
Unbound == [bound |-> FALSE, value |-> ""]

Bound(v) == [bound |-> TRUE, value |-> v]

\* "text" after the try block of file n: assigned when read_text returned,
\* left as the iteration before left it otherwise.
RECURSIVE TextAfter(_, _, _, _)
TextAfter(rendered, tree_, out, n) ==
    IF n = 0 THEN Unbound
    ELSE IF out[rendered[n].rel] # "read" THEN Bound(tree_[rendered[n].rel].content)
    ELSE TextAfter(rendered, tree_, out, n - 1)

\* body_html of one file.
BodyHtml(rel, text, outcome) ==
    IF outcome # "ok" THEN [kind |-> "error", name |-> rel, text |-> ""]
    ELSE IF Lower(Suffix(rel)) \in MARKDOWN_EXTENSIONS
         THEN [kind |-> "markdown", name |-> rel, text |-> text]
    ELSE [kind |-> "highlight", name |-> rel, text |-> text]

Section(info, tree_, outcome) ==
    [file |-> info.rel, size |-> info.size,
     body |-> BodyHtml(info.rel, tree_[info.rel].content, outcome)]

\* The entry appended to file_data for file n.
FileData(rendered, tree_, out, n) ==
    [path |-> rendered[n].rel, size |-> rendered[n].size,
     content |-> TextAfter(rendered, tree_, out, n).value]

\* file_data.append reads "text" while it is unbound: UnboundLocalError.
BuildRaises(rendered, tree_, out) ==
    \E n \in 1..Len(rendered) : ~TextAfter(rendered, tree_, out, n).bound

BuildSections(rendered, tree_, out) ==
    [n \in 1..Len(rendered) |-> Section(rendered[n], tree_, out[rendered[n].rel])]

BuildFileData(rendered, tree_, out) ==
    [n \in 1..Len(rendered) |-> FileData(rendered, tree_, out, n)]

(***************************************************************************)
(* The page                                                                *)
(***************************************************************************)
IsFileBox(e) == e.kind = "file"

IsFolderBox(e) == e.kind = "folder"

\* document.querySelectorAll('.file-checkbox'), in document order
FileBoxes == SelectSeq(tree, IsFileBox)

\* document.querySelectorAll('.folder-checkbox'), in document order
FolderBoxes == SelectSeq(tree, IsFolderBox)

FilePaths == {FileBoxes[n].path : n \in 1..Len(FileBoxes)}

FolderPaths == {FolderBoxes[n].path : n \in 1..Len(FolderBoxes)}

\* The query without ":checked".
CheckedBoxes_all(checked) == FileBoxes

\* document.querySelectorAll('.file-checkbox:checked')
CheckedBoxes(checked) == SelectSeq(FileBoxes, LAMBDA e : checked[e.path])

\* fileData.find(f => f.path === filePath): the first match, <<>> when none.
FindFileData(filePath) ==
    LET at == {n \in 1..Len(file_data) : file_data[n].path = filePath}
    IN  IF at = {} THEN <<>>
        ELSE <<file_data[CHOOSE n \in at : \A j \in at : n <= j]>>

\* selectedFiles of updateSelection
RECURSIVE Found(_)
Found(boxes) ==
    IF boxes = <<>> THEN <<>>
    ELSE FindFileData(Head(boxes).path) \o Found(Tail(boxes))

SelectedFiles(checked) == Found(CheckedBoxes(checked))

RECURSIVE SumSize(_)
SumSize(fs) == IF fs = <<>> THEN 0 ELSE Head(fs).size + SumSize(Tail(fs))

Units == <<"B", "KiB", "MiB", "GiB">>

\* The unit index formatBytes stops at.
RECURSIVE UnitIndex(_, _)
UnitIndex(bytes, k) ==
    IF bytes >= 1024 /\ k < Len(Units) - 1 THEN UnitIndex(bytes \div 1024, k + 1)
    ELSE k

RECURSIVE Pow1024(_)
Pow1024(k) == IF k = 0 THEN 1 ELSE 1024 * Pow1024(k - 1)

\* formatBytes: whole bytes, or one decimal (toFixed(1), a tie rounded up).
formatBytes(bytes) ==
    LET k == UnitIndex(bytes, 0)
        u == Pow1024(k)
        tenths == (20 * bytes + u) \div (2 * u)
    IN  IF k = 0 THEN ToString(bytes) \o " " \o Units[1]
        ELSE ToString(tenths \div 10) \o "." \o ToString(tenths % 10)
             \o " " \o Units[k + 1]

\* updateLLMText: one <document> per selected file, index = position + 1.
Cxml(selectedFiles) ==
    [n \in 1..Len(selectedFiles) |->
        [index |-> n, source |-> selectedFiles[n].path,
         document_content |-> selectedFiles[n].content]]

\* section.classList.toggle('hidden', !isChecked)
Hidden(checked) ==
    [p \in {sections[n].file : n \in 1..Len(sections)} |->
        ~\E n \in 1..Len(CheckedBoxes(checked)) : CheckedBoxes(checked)[n].path = p]

\* updateSelection(), run with the file checkboxes as "checked".
\* An updateSelection that keeps in fileData only the entries it found.
FileDataRead_prune(fd, selectedFiles) == selectedFiles

\* fileData is a const that updateSelection only reads (find).
FileDataRead(fd, selectedFiles) == fd

UpdateSelection(checked) ==
    /\ file_data' = FileDataRead(file_data, SelectedFiles(checked))
    /\ selectedCount' = Len(SelectedFiles(checked))
    /\ selectedSize' = formatBytes(SumSize(SelectedFiles(checked)))
    /\ hidden' = Hidden(checked)
    /\ llmText' = Cxml(SelectedFiles(checked))

(***************************************************************************)
(* The run: main() scans the clone and builds the document, a browser      *)
(* loads it, and the user clicks.                                          *)
(***************************************************************************)
Link == [err |-> "", size |-> 0, chunk |-> "text", content |-> "", link |-> TRUE]

\* a.py, b.png, lib/dep.lock and .git/HEAD
ScenarioRepo ==
    "a.py" :> File("", 200, "text", "A")
    @@ "b.png" :> File("", 300, "null", "B")
    @@ "lib/dep.lock" :> File("", 120, "text", "L")
    @@ ".git/HEAD" :> File("", 41, "text", "H")

\* Nested folders, a folder holding only a binary, a large file, a symlink.
TreeRepo ==
    "a.py" :> File("", 200, "text", "A")
    @@ "lib/x.py" :> File("", 1500, "text", "X")
    @@ "lib/sub/y.js" :> File("", 90, "text", "Y")
    @@ "img/logo.png" :> File("", 700, "null", "P")
    @@ "img.png" :> File("", 650, "null", "Q")
    @@ "big.txt" :> File("", 60000, "text", "T")
    @@ "link.py" :> Link

\* Two folders of which one name is a prefix of the other, and a test folder.
PrefixRepo ==
    "src/testing.py" :> File("", 80, "text", "M")
    @@ "src2/n.md" :> File("", 2048, "text", "N")
    @@ "tests/u.py" :> File("", 60, "text", "U")
    @@ "node_modules/m/i.js" :> File("", 70000, "text", "J")

\* A file that vanished after the walk listed it.
GoneRepo ==
    "ok.py" :> File("", 10, "text", "O")
    @@ "gone.py" :> File("FileNotFoundError", 0, "unreadable", "")
    @@ "docs/build/i.md" :> File("", 30, "text", "I")
    @@ "Zoo.py" :> File("", 20, "text", "Z")

\* A file whose stat is refused.
DenyRepo ==
    "ok.py" :> File("", 10, "text", "O")
    @@ "deny.py" :> File("PermissionError", 0, "text", "D")

Repos == {ScenarioRepo, TreeRepo, PrefixRepo, GoneRepo, DenyRepo}

\* At most this many files of one run fail inside build_html's try block.
MaxFailures == 1

BuildOutcomes(rendered) ==
    LET paths == {rendered[n].rel : n \in 1..Len(rendered)}
    IN  {out \in [paths -> Outcomes] :
            Cardinality({p \in paths : out[p] # "ok"}) <= MaxFailures}

NoAction == [op |-> "none", arg |-> "", value |-> FALSE]

Init ==
    /\ repo \in Repos
    /\ max_bytes \in Ceilings
    /\ skip_bloat \in BOOLEAN
    /\ no_open \in BOOLEAN
    /\ pc = "clone"
    /\ error = ""
    /\ tmpdir = TRUE
    /\ exit_code = -1
    /\ done = {}
    /\ infos = <<>>
    /\ sections = <<>>
    /\ file_data = <<>>
    /\ tree = <<>>
    /\ fileChecked = <<>>
    /\ folderChecked = <<>>
    /\ hidden = <<>>
    /\ selectedCount = 0
    /\ selectedSize = ""
    /\ llmText = <<>>
    /\ lastAction = NoAction
    /\ cfile = <<>>
    /\ cpc = "idle"
    /\ cresult = NotCalled
    /\ ckeep = NotCalled

pageVars == <<fileChecked, folderChecked, hidden, selectedCount, selectedSize,
              llmText, lastAction>>

\* What main() neither reads again nor writes after its arguments are parsed.
argVars == <<repo, max_bytes, skip_bloat, no_open>>

\* The document as build_html returned it.
docVars == <<sections, file_data, tree>>

\* git_clone returns.
Clone ==
    /\ pc = "clone"
    /\ pc' = "scan"
    /\ done' = done \cup {"clone"}
    /\ UNCHANGED <<error, tmpdir, exit_code, argVars, infos, docVars, pageVars,
                   classifyVars>>

\* git clone exits non-zero: subprocess.run(check=True) raises.
CloneFails ==
    /\ pc = "clone"
    /\ error' = "CalledProcessError"
    /\ pc' = "failed"
    /\ UNCHANGED <<tmpdir, exit_code, done, argVars, infos, docVars, pageVars,
                   classifyVars>>

\* collect_files returns the manifest.
Scan ==
    /\ pc = "scan"
    /\ Raising(repo) = {}
    /\ infos' = collect_files(repo, max_bytes, skip_bloat)
    /\ pc' = "build"
    /\ done' = done \cup {"scan"}
    /\ UNCHANGED <<error, tmpdir, exit_code, argVars, docVars, pageVars,
                   classifyVars>>

\* decide_file raises inside collect_files: main() ends with the exception.
ScanRaises ==
    /\ pc = "scan"
    /\ Raising(repo) # {}
    /\ LET first == CHOOSE p \in Raising(repo) :
                        \A q \in Raising(repo) \ {p} : PathLess(p, q)
       IN  error' = repo[first].err
    /\ pc' = "failed"
    /\ UNCHANGED <<tmpdir, exit_code, done, argVars, infos, docVars, pageVars,
                   classifyVars>>

\* build_html returns the document.
Build ==
    /\ pc = "build"
    /\ \E out \in BuildOutcomes(Rendered(infos)) :
          /\ ~BuildRaises(Rendered(infos), repo, out)
          /\ sections' = BuildSections(Rendered(infos), repo, out)
          /\ file_data' = BuildFileData(Rendered(infos), repo, out)
    /\ tree' = build_folder_tree(infos)
    /\ pc' = "write"
    /\ done' = done \cup {"build"}
    /\ UNCHANGED <<error, tmpdir, exit_code, argVars, infos, pageVars, classifyVars>>

\* build_html raises UnboundLocalError: main() ends with the exception.
BuildAborts ==
    /\ pc = "build"
    /\ \E out \in BuildOutcomes(Rendered(infos)) :
          BuildRaises(Rendered(infos), repo, out)
    /\ error' = "UnboundLocalError"
    /\ pc' = "failed"
    /\ UNCHANGED <<tmpdir, exit_code, done, argVars, infos, docVars, pageVars,
                   classifyVars>>

\* out_path.write_text returns.
Write ==
    /\ pc = "write"
    /\ pc' = "open"
    /\ done' = done \cup {"write"}
    /\ UNCHANGED <<error, tmpdir, exit_code, argVars, infos, docVars, pageVars,
                   classifyVars>>

\* out_path.write_text raises.
WriteFails ==
    /\ pc = "write"
    /\ error' = "OSError"
    /\ pc' = "failed"
    /\ UNCHANGED <<tmpdir, exit_code, done, argVars, infos, docVars, pageVars,
                   classifyVars>>

\* if not args.no_open: webbrowser.open(...); then return 0.
Open ==
    /\ pc = "open"
    /\ ~no_open
    /\ pc' = "cleanup"
    /\ done' = done \cup {"open"}
    /\ UNCHANGED <<error, tmpdir, exit_code, argVars, infos, docVars, pageVars,
                   classifyVars>>

\* --no-open: return 0 at once.
SkipOpen ==
    /\ pc = "open"
    /\ no_open
    /\ pc' = "cleanup"
    /\ UNCHANGED <<error, tmpdir, exit_code, done, argVars, infos, docVars,
                   pageVars, classifyVars>>

\* The statements of the try block, during which Ctrl-C raises
\* KeyboardInterrupt.
InTry == {"clone", "scan", "build", "write", "open"}

Interrupt ==
    /\ pc \in InTry
    /\ error' = "KeyboardInterrupt"
    /\ pc' = "failed"
    /\ UNCHANGED <<tmpdir, exit_code, done, argVars, infos, docVars, pageVars,
                   classifyVars>>

\* shutil.rmtree(tmpdir, ignore_errors=True): the directory is removed, or
\* the removal fails and the error is dropped.
Rmtree(removed) == tmpdir' = ~removed

\* A program that swallows the interrupt and ends with status 0.
ExitStatus_swallow(err) ==
    IF err \in {"", "KeyboardInterrupt"} THEN 0 ELSE 1

\* The status of the process: main() is called at module level without
\* sys.exit, so it is 0 when main returns, and the interpreter's status
\* for an uncaught exception otherwise (130 after KeyboardInterrupt).
ExitStatus(err) ==
    IF err = "" THEN 0
    ELSE IF err = "KeyboardInterrupt" THEN 130
    ELSE 1

\* finally, after return 0: the process exits with status 0 and the written
\* document is there for a browser.
Cleanup ==
    /\ pc = "cleanup"
    /\ \E removed \in BOOLEAN : Rmtree(removed)
    /\ exit_code' = ExitStatus(error)
    /\ pc' = "load"
    /\ UNCHANGED <<error, done, argVars, infos, docVars, pageVars, classifyVars>>

\* finally, with an exception in flight: it leaves main() and the
\* interpreter exits with a non-zero status.
CleanupFailed ==
    /\ pc = "failed"
    /\ \E removed \in BOOLEAN : Rmtree(removed)
    /\ exit_code' = ExitStatus(error)
    /\ pc' = "exit"
    /\ UNCHANGED <<error, done, argVars, infos, docVars, pageVars, classifyVars>>

\* Load of a document whose file checkboxes lack the attribute "checked".
Load_unchecked ==
    /\ pc = "load"
    /\ fileChecked' = [p \in FilePaths |-> FALSE]
    /\ folderChecked' = [p \in FolderPaths |-> TRUE]
    /\ UpdateSelection(fileChecked')
    /\ pc' = "view"
    /\ UNCHANGED <<error, tmpdir, exit_code, done, argVars, infos, sections,
                   tree, lastAction, classifyVars>>

\* The browser parses the document (every checkbox has the attribute
\* "checked", no section is hidden) and runs the script to its last line,
\* updateSelection().
Load ==
    /\ pc = "load"
    /\ fileChecked' = [p \in FilePaths |-> TRUE]
    /\ folderChecked' = [p \in FolderPaths |-> TRUE]
    /\ UpdateSelection(fileChecked')
    /\ pc' = "view"
    /\ UNCHANGED <<error, tmpdir, exit_code, done, argVars, infos, sections,
                   tree, lastAction, classifyVars>>

built == <<pc, error, tmpdir, exit_code, done, argVars, infos, sections,
           tree, classifyVars>>

\* The user clicks a file checkbox: the browser flips it and the change
\* listener runs updateSelection.
ToggleFile(p) ==
    /\ pc = "view"
    /\ fileChecked' = [fileChecked EXCEPT ![p] = ~fileChecked[p]]
    /\ UpdateSelection(fileChecked')
    /\ lastAction' = [op |-> "toggleFile", arg |-> p, value |-> fileChecked'[p]]
    /\ UNCHANGED <<built, folderChecked>>

\* A test on the folder path as a bare string prefix.
InFolder_prefix(filePath, folderPath) == StartsWith(filePath, folderPath)

\* The files the folder listener writes to.
InFolder(filePath, folderPath) ==
    StartsWith(filePath, folderPath \o "/") \/ filePath = folderPath

\* A listener that flips the files of the folder instead of writing the
\* state of the folder checkbox to them.
FolderWrite_toggle(checked, folderPath, isChecked) ==
    [p \in DOMAIN checked |->
        IF InFolder(p, folderPath) THEN ~checked[p] ELSE checked[p]]

\* The loop of the folder listener: fileCb.checked = isChecked for the
\* files of the folder.
FolderWrite(checked, folderPath, isChecked) ==
    [p \in DOMAIN checked |->
        IF InFolder(p, folderPath) THEN isChecked ELSE checked[p]]

\* The user clicks a folder checkbox: the browser flips it and the change
\* listener copies its state to the files of the folder.
ToggleFolder(f) ==
    /\ pc = "view"
    /\ folderChecked' = [folderChecked EXCEPT ![f] = ~folderChecked[f]]
    /\ fileChecked' = FolderWrite(fileChecked, f, folderChecked'[f])
    /\ UpdateSelection(fileChecked')
    /\ lastAction' = [op |-> "toggleFolder", arg |-> f, value |-> folderChecked'[f]]
    /\ UNCHANGED built

\* A selector that matches the folder checkboxes only.
SetAll_folders(v) ==
    /\ fileChecked' = fileChecked
    /\ folderChecked' = [p \in DOMAIN folderChecked |-> v]

\* querySelectorAll('.file-checkbox, .folder-checkbox'), cb.checked = v
SetAll(v) ==
    /\ fileChecked' = [p \in DOMAIN fileChecked |-> v]
    /\ folderChecked' = [p \in DOMAIN folderChecked |-> v]

selectAll ==
    /\ pc = "view"
    /\ SetAll(TRUE)
    /\ UpdateSelection(fileChecked')
    /\ lastAction' = [op |-> "selectAll", arg |-> "", value |-> TRUE]
    /\ UNCHANGED built

deselectAll ==
    /\ pc = "view"
    /\ SetAll(FALSE)
    /\ UpdateSelection(fileChecked')
    /\ lastAction' = [op |-> "deselectAll", arg |-> "", value |-> FALSE]
    /\ UNCHANGED built

\* The extensions of the quick-filter buttons.
FilterExtensions == {".py", ".js", ".md"}

\* A filter that checks the files ending with ext without clearing the
\* others first.
FilterWrite_keep(checked, ext) ==
    [p \in DOMAIN checked |-> checked[p] \/ EndsWith(p, ext)]

\* The file checkboxes after deselectAll() and the loop of
\* filterByExtension: cleared, then checked where the path ends with ext.
FilterWrite(checked, ext) ==
    LET cleared == [p \in DOMAIN checked |-> FALSE]
    IN  [p \in DOMAIN checked |->
            IF EndsWith(p, ext) THEN TRUE ELSE cleared[p]]

\* deselectAll() (whose own updateSelection is overwritten by the last
\* one), then every file whose path ends with ext is checked.
filterByExtension(ext) ==
    /\ pc = "view"
    /\ folderChecked' = [p \in DOMAIN folderChecked |-> FALSE]
    /\ fileChecked' = FilterWrite(fileChecked, ext)
    /\ UpdateSelection(fileChecked')
    /\ lastAction' = [op |-> "filterByExtension", arg |-> ext, value |-> TRUE]
    /\ UNCHANGED built

\* The test of toggleTests.
IsTestPath(filePath) ==
    \/ Includes(filePath, "/test")
    \/ Includes(filePath, "/tests")
    \/ Includes(filePath, "_test.")
    \/ Includes(filePath, ".test.")

\* A button that selects the test files instead of flipping them.
TestsFlip_on(checked) ==
    [p \in DOMAIN checked |-> IF IsTestPath(p) THEN TRUE ELSE checked[p]]

\* The loop of toggleTests: cb.checked = !cb.checked on the test files.
TestsFlip(checked) ==
    [p \in DOMAIN checked |-> IF IsTestPath(p) THEN ~checked[p] ELSE checked[p]]

toggleTests ==
    /\ pc = "view"
    /\ fileChecked' = TestsFlip(fileChecked)
    /\ UpdateSelection(fileChecked')
    /\ lastAction' = [op |-> "toggleTests", arg |-> "", value |-> FALSE]
    /\ UNCHANGED <<built, folderChecked>>

UserAction ==
    \/ \E p \in FilePaths : ToggleFile(p)
    \/ \E f \in FolderPaths : ToggleFolder(f)
    \/ selectAll
    \/ deselectAll
    \/ \E ext \in FilterExtensions : filterByExtension(ext)
    \/ toggleTests

Next ==
    \/ Clone
    \/ CloneFails
    \/ Scan
    \/ ScanRaises
    \/ Build
    \/ BuildAborts
    \/ Write
    \/ WriteFails
    \/ Open
    \/ SkipOpen
    \/ Interrupt
    \/ Cleanup
    \/ CleanupFailed
    \/ Load
    \/ UserAction

Spec == Init /\ [][Next]_vars

(***************************************************************************)
(* Properties                                                              *)
(***************************************************************************)
Range(q) == {q[n] : n \in 1..Len(q)}

\* The paths the scanner gave the verdict Include.
IncludedPaths == {i.rel : i \in {x \in Range(infos) : x.include}}

\* The selection: the files whose checkbox is checked.
Selected == {p \in DOMAIN fileChecked : fileChecked[p]}

\* The position of a path in the manifest.
ManifestIndex(p) == CHOOSE n \in 1..Len(infos) : infos[n].rel = p

\* The size the manifest records for a path.
ManifestSize(p) == infos[ManifestIndex(p)].size

RECURSIVE SumOver(_)
SumOver(S) ==
    IF S = {} THEN 0
    ELSE LET p == CHOOSE x \in S : TRUE
         IN  ManifestSize(p) + SumOver(S \ {p})

\* The files that lie under a folder.
Under(folderPath) == {p \in FilePaths : StartsWith(p, folderPath \o "/")}

\* C1: after any sequence of user actions the export document lists the
\* selected files in the order of the manifest (the scanner's order), not in
\* the order of the tree.
C1_ExportInManifestOrder ==
    pc = "view" =>
        \A i, j \in 1..Len(llmText) :
            i < j => ManifestIndex(llmText[i].source) < ManifestIndex(llmText[j].source)

\* C2: a folder's checkbox is a derived view of its files: it is never shown
\* checked while none of the files under it is selected, and never shown
\* unchecked while all of them are.
C2_FolderStateDerived ==
    pc = "view" =>
        \A f \in FolderPaths :
            /\ folderChecked[f] => Under(f) \cap Selected # {}
            /\ ~folderChecked[f] => ~(Under(f) \subseteq Selected)

\* C3: after every completed action the derived views agree with the
\* selection: the visible sections are the selected files, the count is
\* their number, the size is the sum of their sizes, and the export document
\* holds exactly the selected files, each once, numbered 1..k, with the
\* content embedded for it.
C3_DerivedViewsAgree ==
    pc = "view" =>
        /\ DOMAIN hidden = IncludedPaths
        /\ {p \in DOMAIN hidden : ~hidden[p]} = Selected
        /\ selectedCount = Cardinality(Selected)
        /\ selectedSize = formatBytes(SumOver(Selected))
        /\ Len(llmText) = Cardinality(Selected)
        /\ {d.source : d \in Range(llmText)} = Selected
        /\ \A n \in 1..Len(llmText) :
              /\ llmText[n].index = n
              /\ \E e \in Range(file_data) :
                    /\ e.path = llmText[n].source
                    /\ e.content = llmText[n].document_content

\* C3 witness: a folder toggle has left some files selected and some not.
C3_Witness ==
    /\ pc = "view"
    /\ lastAction.op = "toggleFolder"
    /\ Selected # {}
    /\ Selected # FilePaths
    /\ selectedCount = Cardinality(Selected)

\* The rules of the classifier as the claims state them, on the path and the
\* file alone.
UnderVcsDir(rel) ==
    \E k \in 1..(Len(Split(rel)) - 1) : Split(rel)[k] = ".git"

BloatName(rel) ==
    \/ Split(rel)[Len(Split(rel))] \in BLOAT_PATTERNS
    \/ \E k \in 1..Len(Split(rel)) : Split(rel)[k] \in BLOAT_DIRS

SizeRead(f) == IF f.err = "" THEN f.size ELSE 0

SniffBinary(rel, f) == Lower(Suffix(rel)) \in BINARY_EXTENSIONS \/ f.chunk # "text"

\* The verdict of rules 3 to 5.
RestVerdict(rel, f, max) ==
    IF SizeRead(f) > max THEN "too_large"
    ELSE IF SniffBinary(rel, f) THEN "binary"
    ELSE "ok"

FirstMatch(rel, f, max, skip) ==
    IF UnderVcsDir(rel) THEN "ignored"
    ELSE IF skip /\ BloatName(rel) THEN "bloat"
    ELSE RestVerdict(rel, f, max)

Returned(r) == "reason" \in DOMAIN r

\* C4: the verdict decide_file returns is that of the first matching rule in
\* the order ignored, bloat, too large, binary, include: a file over the
\* ceiling that is neither ignored nor bloat is too large whatever its
\* content, and a file under .git is ignored whatever else it matches.
C4_FirstMatchWins ==
    (cpc # "input" /\ Returned(cresult)) =>
        /\ cresult.reason = FirstMatch(cfile.rel, cfile.f, max_bytes, skip_bloat)
        /\ cresult.include = (cresult.reason = "ok")
        /\ (UnderVcsDir(cfile.rel) => cresult.reason = "ignored")
        /\ (/\ SizeRead(cfile.f) > max_bytes
            /\ ~UnderVcsDir(cfile.rel)
            /\ ~(skip_bloat /\ BloatName(cfile.rel))) => cresult.reason = "too_large"

\* C4 witness: a file over the ceiling with a null byte, neither ignored nor
\* bloat, has been decided too large.
C4_Witness ==
    /\ cpc = "decided"
    /\ cfile.f.size > max_bytes
    /\ cfile.f.chunk = "null"
    /\ ~UnderVcsDir(cfile.rel)
    /\ ~BloatName(cfile.rel)
    /\ cresult.reason = "too_large"

ScenarioRun ==
    /\ repo = ScenarioRepo
    /\ skip_bloat
    /\ max_bytes = MAX_DEFAULT_BYTES
    /\ pc \in {"write", "open", "cleanup", "load", "view"}

Verdict(rel) == infos[ManifestIndex(rel)].reason

RootFiles == {e \in Range(tree) : e.kind = "file" /\ e.parent = ""}

\* C5 as stated: in the scenario repository lib/dep.lock is excluded as
\* bloat, and the tree holds a.py alone and no folder lib.
C5_ScenarioAsStated ==
    ScenarioRun =>
        /\ Verdict("a.py") = "ok"
        /\ Verdict("b.png") = "binary"
        /\ Verdict("lib/dep.lock") = "bloat"
        /\ Verdict(".git/HEAD") = "ignored"
        /\ {e.path : e \in RootFiles} = {"a.py"}
        /\ ~\E e \in Range(tree) : e.kind = "folder" /\ e.path = "lib"

\* C5: in the scenario repository (a.py of 200 bytes, b.png, lib/dep.lock
\* of 120 bytes of text, .git/HEAD; bloat-skipping on, default ceiling) a.py
\* is included, b.png is binary, .git/HEAD is ignored and lib/dep.lock is
\* included, dep.lock being no known lockfile name and lib no known
\* generated directory; the tree has the one root-level file a.py and the
\* folder lib holding dep.lock.
C5_Scenario ==
    ScenarioRun =>
        /\ Verdict("a.py") = "ok"
        /\ Verdict("b.png") = "binary"
        /\ Verdict("lib/dep.lock") = "ok"
        /\ Verdict(".git/HEAD") = "ignored"
        /\ {e.path : e \in RootFiles} = {"a.py"}
        /\ Cardinality({n \in 1..Len(tree) : tree[n].kind = "file" /\ tree[n].parent = ""}) = 1
        /\ \E e \in Range(tree) : e.kind = "folder" /\ e.path = "lib" /\ e.parent = ""
        /\ \E e \in Range(tree) :
              e.kind = "file" /\ e.path = "lib/dep.lock" /\ e.parent = "lib"

\* C5 witness: the scenario repository has been scanned and its tree built.
C5_Witness == ScenarioRun /\ Len(infos) = 4 /\ tree # <<>>

\* C6: a file is excluded as bloat only with bloat-skipping on and a known
\* lockfile basename or a known generated-directory segment; with the flag
\* off no file is bloat, and a file that was bloat with the flag on gets the
\* verdict of the remaining rules.
C6_BloatOnlyWhenEnabled ==
    /\ (cpc # "input" /\ Returned(cresult) /\ cresult.reason = "bloat") =>
          skip_bloat /\ BloatName(cfile.rel)
    /\ (cpc = "redone" /\ Returned(ckeep)) =>
          /\ ckeep.reason # "bloat"
          /\ cresult.reason = "bloat" =>
                ckeep.reason = RestVerdict(cfile.rel, cfile.f, max_bytes)

\* C6 witness: a file excluded as bloat has been decided again with the
\* flag off and is included.
C6_Witness ==
    /\ cpc = "redone"
    /\ Returned(cresult) /\ cresult.reason = "bloat"
    /\ Returned(ckeep) /\ ckeep.reason = "ok"

\* C7: classification is total: whatever the stat of the file does,
\* decide_file returns one verdict, the size read as 0 when it cannot be
\* read, and raises nothing.
C7_ClassificationTotal ==
    cpc # "input" =>
        /\ Returned(cresult)
        /\ cresult.reason \in {"ok", "binary", "too_large", "ignored", "bloat"}
        /\ cfile.f.err # "" => cresult.size = 0

Built == pc \in {"write", "open", "cleanup", "load", "view"}

\* C8: a file whose content cannot be read or rendered does not abort the
\* run and affects no other file: it alone gets the error placeholder, and
\* the content embedded under each path is that file's own.
C8_FailureIsolated ==
    /\ error # "UnboundLocalError"
    /\ Built =>
          /\ \A e \in Range(file_data) : e.content = repo[e.path].content

\* C9: the paths of the export document are exactly the selected included
\* paths, each once, and the content exported for a path is the content of
\* the file at that path.
C9_ExportRoundTrip ==
    pc = "view" =>
        /\ {d.source : d \in Range(llmText)} = Selected \cap IncludedPaths
        /\ Len(llmText) = Cardinality(Selected)
        /\ \A d \in Range(llmText) : d.document_content = repo[d.source].content

\* The directory of a path: what precedes its last slash.
ParentDir(rel) == SubSeq(rel, 1, RFind(rel, "/") - 1)

\* C10: the leaves of the tree are exactly the included files of the
\* manifest, each once and directly under the folder of its parent directory
\* (the root for a file without one); no other file has a checkbox, so the
\* selection is always a subset of the included files.
C10_LeavesAreIncluded ==
    /\ Built =>
          /\ \A p \in IncludedPaths :
                /\ Cardinality({n \in 1..Len(tree) :
                                   tree[n].kind = "file" /\ tree[n].path = p}) = 1
                /\ \A e \in Range(tree) :
                      (e.kind = "file" /\ e.path = p) =>
                          /\ e.parent = ParentDir(p)
                          /\ e.parent # "" =>
                                \E d \in Range(tree) :
                                    d.kind = "folder" /\ d.path = e.parent
          /\ \A e \in Range(tree) : e.kind = "file" => e.path \in IncludedPaths
    /\ pc = "view" =>
          /\ DOMAIN fileChecked = IncludedPaths
          /\ Selected \subseteq IncludedPaths

\* C10 witness: with excluded files in the manifest and a file two folders
\* deep in the tree, the user has toggled a file.
C10_Witness ==
    /\ pc = "view"
    /\ lastAction.op = "toggleFile"
    /\ \E i \in Range(infos) : ~i.include
    /\ \E e \in Range(tree) : e.kind = "file" /\ e.level = 2
    /\ Selected # {}

\* The directories of the scanned tree: what precedes a slash of a path of
\* the manifest.
ManifestDirs ==
    UNION {{SubSeq(i.rel, 1, k - 1) :
                k \in {j \in 1..Len(i.rel) : Char(i.rel, j) = "/"}} :
           i \in Range(infos)}

FolderNodes(d) == {n \in 1..Len(tree) : tree[n].kind = "folder" /\ tree[n].path = d}

\* C11: a folder node exists for a directory if and only if an included
\* file lies under it, at any depth: a directory of excluded files only has
\* no node, and every folder node has a leaf below it.
C11_FolderIffIncludedBelow ==
    Built =>
        /\ \A d \in ManifestDirs :
              /\ FolderNodes(d) # {} <=>
                    \E p \in IncludedPaths : StartsWith(p, d \o "/")
              /\ Cardinality(FolderNodes(d)) <= 1
        /\ \A e \in Range(tree) :
              e.kind = "folder" =>
                  /\ e.path \in ManifestDirs
                  /\ \E l \in Range(tree) :
                        l.kind = "file" /\ StartsWith(l.path, e.path \o "/")

\* C11 witness: the tree is built, one directory of the manifest has no
\* folder node and a folder node lies inside another.
C11_Witness ==
    /\ Built
    /\ \E d \in ManifestDirs : FolderNodes(d) = {}
    /\ \E e \in Range(tree) : e.kind = "folder" /\ e.level = 1

\* C12: when the page has loaded and the user has done nothing, every
\* included file is selected and the views say so: no section is hidden,
\* the count is the number of included files, the size is the sum of their
\* sizes, and the export document holds every included file.
C12_InitiallyAllSelected ==
    (pc = "view" /\ lastAction = NoAction) =>
        /\ Selected = IncludedPaths
        /\ DOMAIN hidden = IncludedPaths
        /\ \A p \in DOMAIN hidden : ~hidden[p]
        /\ selectedCount = Cardinality(IncludedPaths)
        /\ selectedSize = formatBytes(SumOver(IncludedPaths))
        /\ {d.source : d \in Range(llmText)} = IncludedPaths
        /\ Len(llmText) = Cardinality(IncludedPaths)

\* C12 witness: a page with several included files and an excluded one has
\* just loaded.
C12_Witness ==
    /\ pc = "view"
    /\ lastAction = NoAction
    /\ Cardinality(IncludedPaths) >= 2
    /\ \E i \in Range(infos) : ~i.include
    /\ selectedCount = Cardinality(IncludedPaths)

\* C13: the folder listener is an idempotent overwrite.  After
\* toggleFolder(p, v) every included file whose path is p or begins with
\* p + "/" has the value v; running the same listener again with the same
\* p and v changes nothing (neither the checkboxes nor the views derived
\* from them); and toggleFolder(p, true) directly followed by
\* toggleFolder(p, false) leaves no selected file under p.
BelowFolder(p) == {f \in IncludedPaths : f = p \/ StartsWith(f, p \o "/")}

C13_Overwritten ==
    lastAction.op = "toggleFolder" =>
        /\ \A f \in BelowFolder(lastAction.arg) :
               fileChecked[f] = lastAction.value
        /\ FolderWrite(fileChecked, lastAction.arg, lastAction.value)
               = fileChecked
        /\ selectedCount = Len(SelectedFiles(fileChecked))
        /\ llmText = Cxml(SelectedFiles(fileChecked))
        /\ hidden = Hidden(fileChecked)

C13_OnThenOff ==
    ( /\ lastAction.op = "toggleFolder"
      /\ lastAction.value
      /\ lastAction'.op = "toggleFolder"
      /\ lastAction'.arg = lastAction.arg
      /\ ~lastAction'.value )
    => (BelowFolder(lastAction.arg)' \cap Selected' = {})

C13_ToggleFolderIdempotentOverwrite ==
    [](C13_Overwritten) /\ [][C13_OnThenOff]_vars

\* A folder was switched on while a file outside it stayed unselected and
\* a file below it had been unselected before: the prior state was mixed.
C13_Witness ==
    /\ pc = "view"
    /\ lastAction.op = "toggleFolder"
    /\ lastAction.value
    /\ BelowFolder(lastAction.arg) # {}
    /\ \E g \in IncludedPaths \ BelowFolder(lastAction.arg) : ~fileChecked[g]

\* C14: after selectAll() every included file is selected; after
\* deselectAll() no included file is selected, the selected count is 0,
\* the total size is 0 bytes, the export has no entry and every file
\* section is hidden.
C14_SelectAllDeselectAll ==
    /\ lastAction.op = "selectAll" =>
           /\ IncludedPaths \subseteq Selected
           /\ selectedCount = Cardinality(IncludedPaths)
    /\ lastAction.op = "deselectAll" =>
           /\ IncludedPaths \cap Selected = {}
           /\ selectedCount = 0
           /\ selectedSize = formatBytes(0)
           /\ selectedSize = "0 B"
           /\ llmText = <<>>
           /\ \A p \in IncludedPaths : hidden[p]

\* deselectAll() was pressed on a page with at least two included files,
\* which were all selected when the page was loaded.
C14_Witness ==
    /\ pc = "view"
    /\ lastAction.op = "deselectAll"
    /\ Cardinality(IncludedPaths) >= 2
    /\ Selected = {}

\* selectAll() was pressed: every file is selected (the states before it
\* include those with an empty or a partial selection).
C14_WitnessAll ==
    /\ pc = "view"
    /\ lastAction.op = "selectAll"
    /\ Cardinality(IncludedPaths) >= 2
    /\ Selected = IncludedPaths

\* C15: filterByExtension(ext) ends in the state of deselectAll()
\* followed by toggleFile(path, true) for every included path ending in
\* ext: the selected set is exactly the included files whose path ends
\* with ext, whatever was selected before, every folder checkbox is off
\* as deselectAll() leaves it, and the derived views are those of that
\* selection.
EndingIn(ext) == {p \in IncludedPaths : EndsWith(p, ext)}

AfterDeselectAndToggles(ext) ==
    [p \in IncludedPaths |-> p \in EndingIn(ext)]

C15_FilterEqualsDeselectThenToggle ==
    lastAction.op = "filterByExtension" =>
        /\ Selected = EndingIn(lastAction.arg)
        /\ fileChecked = AfterDeselectAndToggles(lastAction.arg)
        /\ \A f \in DOMAIN folderChecked : ~folderChecked[f]
        /\ selectedCount = Cardinality(EndingIn(lastAction.arg))
        /\ hidden = Hidden(AfterDeselectAndToggles(lastAction.arg))
        /\ llmText = Cxml(SelectedFiles(AfterDeselectAndToggles(lastAction.arg)))

\* A filter was applied that keeps some included files and drops others.
C15_Witness ==
    /\ pc = "view"
    /\ lastAction.op = "filterByExtension"
    /\ EndingIn(lastAction.arg) # {}
    /\ EndingIn(lastAction.arg) # IncludedPaths
    /\ Selected = EndingIn(lastAction.arg)

\* C16: toggleTests() is an involution on the selection.  Whenever it has
\* just run, running it once more gives back, for every included file,
\* the value the file had before the first run, and with it the counter,
\* the visible sections and the export of that earlier state.
C16_SecondRunRestores ==
    lastAction'.op = "toggleTests" =>
        /\ DOMAIN fileChecked = IncludedPaths
        /\ TestsFlip(fileChecked') = fileChecked
        /\ \A p \in IncludedPaths : TestsFlip(fileChecked')[p] = fileChecked[p]
        /\ Len(SelectedFiles(TestsFlip(fileChecked'))) = selectedCount
        /\ Hidden(TestsFlip(fileChecked')) = hidden
        /\ Cxml(SelectedFiles(TestsFlip(fileChecked'))) = llmText
        /\ folderChecked' = folderChecked

C16_ToggleTestsInvolution == [][C16_SecondRunRestores]_vars

\* toggleTests() has just switched a test file off while another included
\* file is not a test file.
C16_Witness ==
    /\ pc = "view"
    /\ lastAction.op = "toggleTests"
    /\ \E p \in IncludedPaths : IsTestPath(p) /\ ~fileChecked[p]
    /\ \E p \in IncludedPaths : ~IsTestPath(p)

\* The process has ended: main returned or an exception left it.
Terminated == exit_code # -1

\* C17: on every exit path (success, a failure at clone, scan, generation
\* or writing, an interrupt) the temporary directory made for the clone no
\* longer exists once the program has terminated.
C17_TmpdirReleased == Terminated => ~tmpdir

\* The four stages whose success the exit status reports.
Stages == {"clone", "scan", "build", "write"}

\* A failed clone: nothing was scanned, written or opened.  A failed
\* write: no viewer was opened.  Both end with a non-zero status.
FailuresPropagate ==
    /\ error = "CalledProcessError" =>
           /\ exit_code # 0
           /\ done \cap {"scan", "build", "write", "open"} = {}
    /\ error = "OSError" =>
           /\ exit_code # 0
           /\ "open" \notin done

\* C18 as stated: the run exits with code 0 exactly when clone, scan,
\* generation and writing all succeeded; a clone failure ends it non-zero
\* before any scan, write or viewer open; a write failure ends it non-zero
\* without opening a viewer.
C18_ExitZeroIffStagesDone ==
    Terminated =>
        /\ (exit_code = 0) <=> (Stages \subseteq done)
        /\ FailuresPropagate

\* C18, amended: the run exits with code 0 exactly when the four stages
\* all succeeded and no interrupt arrived before main returned; the two
\* failure cases are as stated.
C18_ExitZeroIffDoneAndNotInterrupted ==
    Terminated =>
        /\ (exit_code = 0) <=>
               (Stages \subseteq done /\ error # "KeyboardInterrupt")
        /\ FailuresPropagate

\* The document was written, Ctrl-C arrived while the viewer was being
\* opened, and the process ended with a non-zero status.
C18_Witness ==
    /\ Terminated
    /\ Stages \subseteq done
    /\ error = "KeyboardInterrupt"
    /\ exit_code # 0

\* The relative paths of the manifest, in its order.
ManifestPaths == [n \in 1..Len(infos) |-> infos[n].rel]

\* The manifest lists every regular file of the directory once, symbolic
\* links left out, and is the value collect_files computes from the
\* directory contents alone.
ManifestOfContents ==
    /\ Range(ManifestPaths) = {p \in DOMAIN repo : ~repo[p].link}
    /\ Len(infos) = Cardinality(Range(ManifestPaths))
    /\ infos = collect_files(repo, max_bytes, skip_bloat)

\* C19 as stated: the manifest is in the order of the slash-joined
\* relative paths compared as strings, the same on every run over the
\* same directory contents.
C19_OrderedByPathString ==
    "scan" \in done =>
        /\ \A i, j \in 1..Len(infos) :
               i < j => StrLess(ManifestPaths[i], ManifestPaths[j])
        /\ ManifestOfContents

\* The position of a character when the separator sorts before every
\* other character.
SlashFirstRank(c) == IF c = "/" THEN 0 ELSE Ord(c)

\* String comparison under that ranking.
SlashFirstLess(a, b) ==
    \E i \in 1..(Min(Len(a), Len(b)) + 1) :
        /\ SubSeq(a, 1, i - 1) = SubSeq(b, 1, i - 1)
        /\ \/ i > Len(a) /\ i <= Len(b)
           \/ /\ i <= Len(a)
              /\ i <= Len(b)
              /\ SlashFirstRank(Char(a, i)) < SlashFirstRank(Char(b, i))

\* C19, amended: the manifest is in the order of the relative paths
\* compared component by component, which is the order of the
\* slash-joined strings when the separator sorts before every other
\* character (so img/logo.png precedes img.png), the same on every run
\* over the same directory contents.
C19_OrderedByComponents ==
    "scan" \in done =>
        /\ \A i, j \in 1..Len(infos) :
               i < j => SlashFirstLess(ManifestPaths[i], ManifestPaths[j])
        /\ ManifestOfContents

\* A manifest in which two entries stand in the reverse of their string
\* order: a directory entry before a file whose name continues the
\* directory name with a character below the separator.
C19_Witness ==
    /\ "scan" \in done
    /\ \E i, j \in 1..Len(infos) :
          /\ i < j
          /\ StrLess(ManifestPaths[j], ManifestPaths[i])
          /\ SlashFirstLess(ManifestPaths[i], ManifestPaths[j])

\* The records in the opposite order.
Reverse(s) == [n \in 1..Len(s) |-> s[Len(s) + 1 - n]]

\* Two elements of the tree that are children of the same folder node
\* (of the root when parent is ""), the first written before the second.
Siblings(m, n) ==
    /\ m \in 1..Len(tree)
    /\ n \in 1..Len(tree)
    /\ m < n
    /\ tree[m].parent = tree[n].parent

\* C20: under every folder node and under the root, all subfolders come
\* before all direct files, the subfolders in case-sensitive alphabetical
\* order of their names and the files in that order of their basenames;
\* the tree depends on the set of records only, not on their order.
C20_FoldersFirstEachSorted ==
    Built =>
        /\ \A m, n \in 1..Len(tree) :
               Siblings(m, n) =>
                   /\ tree[m].kind = "file" => tree[n].kind = "file"
                   /\ tree[m].kind = tree[n].kind =>
                          StrLess(Basename(tree[m].path), Basename(tree[n].path))
        /\ tree = build_folder_tree(infos)
        /\ tree = build_folder_tree(Reverse(infos))

\* A level that holds a folder and two files, of which the first begins
\* with a capital letter and the second with a small one.
C20_Witness ==
    /\ Built
    /\ \E k, m, n \in 1..Len(tree) :
          /\ Siblings(k, m)
          /\ Siblings(m, n)
          /\ tree[k].kind = "folder"
          /\ tree[m].kind = "file"
          /\ tree[n].kind = "file"
          /\ Ord(Char(Basename(tree[m].path), 1)) < Ord("a")
          /\ Ord(Char(Basename(tree[n].path), 1)) >= Ord("a")

\* A level that holds more than one folder.
C20_WitnessFolders ==
    /\ Built
    /\ \E m, n \in 1..Len(tree) :
          /\ Siblings(m, n)
          /\ tree[m].kind = "folder"
          /\ tree[n].kind = "folder"

\* The test-file heuristic as the claim words it: a segment of the path
\* is test or tests, or the basename contains _test. or .test.
HasTestSegment(p) == \E n \in 1..Len(Split(p)) : Split(p)[n] \in {"test", "tests"}

TestHeuristic(p) ==
    \/ HasTestSegment(p)
    \/ Includes(Basename(p), "_test.")
    \/ Includes(Basename(p), ".test.")

\* C21: a run of toggleTests flips the selection of exactly the included
\* files that match the test-file heuristic (a segment test or tests at
\* any depth, the first included, or a basename containing _test. or
\* .test.) and leaves every other file as it was.
C21_FlipsExactlyHeuristic ==
    lastAction'.op = "toggleTests" =>
        \A p \in IncludedPaths :
            fileChecked'[p] = IF TestHeuristic(p) THEN ~fileChecked[p]
                              ELSE fileChecked[p]

C21_ToggleTestsFlipsTestFiles == [][C21_FlipsExactlyHeuristic]_vars

\* C22: toggleFolder(p, v) leaves every included file that is not p and
\* does not begin with p + "/" as it was, the files of a sibling folder
\* whose name has p as a string prefix among them; toggleFile(path, v)
\* gives that one file the value v and changes no other file.
C22_Frame ==
    /\ lastAction'.op = "toggleFolder" =>
           \A f \in IncludedPaths \ BelowFolder(lastAction'.arg) :
               fileChecked'[f] = fileChecked[f]
    /\ lastAction'.op = "toggleFile" =>
           /\ fileChecked'[lastAction'.arg] = lastAction'.value
           /\ \A f \in IncludedPaths \ {lastAction'.arg} :
                  fileChecked'[f] = fileChecked[f]

C22_OthersUnchanged == [][C22_Frame]_vars

\* A folder was switched while a file of a sibling folder, whose name
\* continues the folder's name, holds the other value.
C22_Witness ==
    /\ pc = "view"
    /\ lastAction.op = "toggleFolder"
    /\ BelowFolder(lastAction.arg) # {}
    /\ \E g \in IncludedPaths \ BelowFolder(lastAction.arg) :
          /\ StartsWith(g, lastAction.arg)
          /\ fileChecked[g] # lastAction.value

\* C23: once the document is open, user actions change the selection
\* only.  The manifest (paths, order, sizes, embedded contents), the
\* sections, the tree, the sets of file and folder checkboxes and the
\* scanned directory stay as built, and neither the scanner nor the
\* classifier runs again: the run stays in the viewer with its stages
\* and classifier state untouched.
C23_Frame ==
    pc = "view" =>
        /\ infos' = infos
        /\ file_data' = file_data
        /\ sections' = sections
        /\ tree' = tree
        /\ DOMAIN fileChecked' = DOMAIN fileChecked
        /\ DOMAIN folderChecked' = DOMAIN folderChecked
        /\ DOMAIN hidden' = DOMAIN hidden
        /\ repo' = repo
        /\ pc' = "view"
        /\ done' = done
        /\ classifyVars' = classifyVars

C23_OnlySelectionMutable == [][C23_Frame]_vars

\* Several actions later the selection differs from the one the page was
\* loaded with, and the document is the one that was built.
C23_Witness ==
    /\ pc = "view"
    /\ lastAction.op = "toggleTests"
    /\ Selected # IncludedPaths
    /\ Selected # {}
    /\ Len(file_data) = Cardinality(IncludedPaths)
    /\ Len(file_data) >= 2

\* The selected paths in the order of the manifest.
SelectedInManifestOrder == SelectSeq(ManifestPaths, LAMBDA p : p \in Selected)

\* C24: in the export the k selected files carry the indices 1..k without
\* gap or repeat, in manifest order restricted to the selection, each
\* entry tagged with its own path.
C24_IndexedInManifestOrder ==
    pc = "view" =>
        /\ Len(llmText) = Cardinality(Selected)
        /\ \A n \in 1..Len(llmText) : llmText[n].index = n
        /\ [n \in 1..Len(llmText) |-> llmText[n].source] = SelectedInManifestOrder

\* The whole content of the file is valid UTF-8 text without a null byte
\* (of a file of kind "text" this is what the chunk shows of it).
ValidTextContent(f) == f.chunk \in {"text", "cut"}

\* C25: a readable file that is not under the version-control directory,
\* is not bloat, does not exceed the ceiling, has no binary extension and
\* whose entire content is valid UTF-8 text without a null byte is
\* included, however long it is and also when a multi-byte character lies
\* across the end of the sniffed chunk.
C25_ValidTextIncluded ==
    ( /\ cpc # "input"
      /\ cfile.f.err = ""
      /\ ~UnderVcsDir(cfile.rel)
      /\ ~(skip_bloat /\ BloatName(cfile.rel))
      /\ cfile.f.size <= max_bytes
      /\ Lower(Suffix(cfile.rel)) \notin BINARY_EXTENSIONS
      /\ ValidTextContent(cfile.f) )
    => /\ Returned(cresult)
       /\ cresult.include
       /\ cresult.reason = "ok"

====
